---- MODULE Spec2Model ----
(***************************************************************************)
(* A model of the Oz agent GitHub action (src/src/agent.ts, src/src/index.ts).*)
(*                                                                         *)
(* One run of the action is a sequential program: runAgent reads its       *)
(* inputs, validates them, resolves the CLI command, installs the CLI      *)
(* (downloadOzDeb, dpkg, apt-get), builds the argument list and invokes    *)
(* the agent; index.ts turns a thrown error into a failed run.  Every      *)
(* call to an external collaborator (HTTP client, tool cache, process      *)
(* execution, filesystem, core logging) is appended to the trace calls,    *)
(* with its outcome, which the environment chooses.                        *)
(*                                                                         *)
(* Opaque strings are TLA+ strings.  Strings the code takes apart (the     *)
(* version, the path of the redirect target) are sequences of              *)
(* one-character strings; Str turns them into the string they spell.       *)
(***************************************************************************)
EXTENDS Integers, Sequences, FiniteSets, TLC

VARIABLES
    inputs,        \* the action's inputs (core.getInput / getMultilineInput / isDebug)
    host,          \* process.platform and process.arch
    toolCache,     \* the tool cache: set of [tool, version] entries
    pc,            \* position of the run
    command,       \* runAgent: const command
    version,       \* downloadOzDeb: parameter version (reassigned by the code)
    debVersion,    \* downloadOzDeb: let debVersion
    debUrl,        \* downloadOzDeb: let debUrl
    downloadedDeb, \* downloadOzDeb: const downloadedDeb
    cachedDeb,     \* downloadOzDeb: let cachedDeb
    args,          \* runAgent: const args
    calls,         \* trace of the calls to external collaborators
    error,         \* the error in flight, once one is thrown
    agent_output,  \* the action output agent_output
    failure        \* core.setFailed

vars == <<inputs, host, toolCache, pc, command, version, debVersion, debUrl,
          downloadedDeb, cachedDeb, args, calls, error, agent_output, failure>>

(***************************************************************************)
(* Bounds of the model.                                                    *)
(***************************************************************************)
\* longest concrete version string requested
MaxVer == 3
\* longest path of a redirect target
MaxPath == 5
\* most share recipients
MaxShare == 2

(***************************************************************************)
(* Strings.                                                                *)
(***************************************************************************)
RECURSIVE Str(_)
Str(s) == IF s = <<>> THEN "" ELSE Head(s) \o Str(Tail(s))

\* all sequences over S of length at most n
SeqsUpTo(S, n) == UNION {[1..k -> S] : k \in 0..n}

Latest == <<"l", "a", "t", "e", "s", "t">>

\* String.prototype.startsWith('v') and String.prototype.slice(1)
startsWithV(s) == Len(s) >= 1 /\ s[1] = "v"
slice1(s) == IF Len(s) <= 1 THEN <<>> ELSE SubSeq(s, 2, Len(s))

\* String.prototype.split('/') : the pieces between the slashes, empty ones kept
RECURSIVE split(_)
split(s) ==
    IF \A i \in 1..Len(s) : s[i] # "/"
    THEN <<s>>
    ELSE LET k == CHOOSE i \in 1..Len(s) : s[i] = "/" /\ \A j \in 1..(i-1) : s[j] # "/"
         IN <<SubSeq(s, 1, k-1)>> \o split(SubSeq(s, k+1, Len(s)))

\* Array.prototype.filter((c) => c) : the non-empty pieces, in order
RECURSIVE filterNonEmpty(_)
filterNonEmpty(q) ==
    IF q = <<>> THEN <<>>
    ELSE IF Head(q) = <<>> THEN filterNonEmpty(Tail(q))
    ELSE <<Head(q)>> \o filterNonEmpty(Tail(q))

(***************************************************************************)
(* Errors and results.                                                     *)
(***************************************************************************)
NoError == [thrown |-> FALSE, message |-> ""]
Throw(m) == [thrown |-> TRUE, message |-> m]
Unset == [set |-> FALSE, value |-> ""]
SetTo(v) == [set |-> TRUE, value |-> v]

(***************************************************************************)
(* resolveCommand (agent.ts 67-76).                                        *)
(***************************************************************************)
resolveCommand_anyChannel(channel) ==
    IF channel = "stable" THEN [ok |-> TRUE, value |-> "oz", message |-> ""]
    ELSE [ok |-> TRUE, value |-> "oz-preview", message |-> ""]

resolveCommand(channel) ==
    CASE channel = "stable" -> [ok |-> TRUE, value |-> "oz", message |-> ""]
      [] channel = "preview" -> [ok |-> TRUE, value |-> "oz-preview", message |-> ""]
      [] OTHER -> [ok |-> FALSE, value |-> "",
                   message |-> "Unsupported channel " \o channel]

(***************************************************************************)
(* buildArgs (agent.ts 93-145): the pushes, in the order of the code.      *)
(***************************************************************************)
\* for (const recipient of opts.shareRecipients) args.push('--share', recipient)
RECURSIVE pushShares(_, _)
pushShares(a, recipients) ==
    IF recipients = <<>> THEN a
    ELSE pushShares(a \o <<"--share", Head(recipients)>>, Tail(recipients))

buildArgs_sandboxAlways(opts) ==
    LET a0 == <<"agent", "run">>
        a1 == IF opts.prompt # "" THEN a0 \o <<"--prompt", opts.prompt>> ELSE a0
        a2 == IF opts.savedPrompt # "" THEN a1 \o <<"--saved-prompt", opts.savedPrompt>> ELSE a1
        a3 == IF opts.skill # "" THEN a2 \o <<"--skill", opts.skill>> ELSE a2
        a4 == IF opts.model # "" THEN a3 \o <<"--model", opts.model>> ELSE a3
        a5 == IF opts.name # "" THEN a4 \o <<"--name", opts.name>> ELSE a4
        a6 == IF opts.mcp # "" THEN a5 \o <<"--mcp", opts.mcp>> ELSE a5
        a7 == IF opts.cwd # "" THEN a6 \o <<"--cwd", opts.cwd>> ELSE a6
        a8p == IF opts.profile # "" THEN a7 \o <<"--profile", opts.profile>> ELSE a7
        a8 == a8p \o <<"--sandboxed">>
        a9 == IF opts.outputFormat # "" THEN a8 \o <<"--output-format", opts.outputFormat>> ELSE a8
        a10 == pushShares(a9, opts.shareRecipients)
        a11 == IF opts.debug THEN a10 \o <<"--debug">> ELSE a10
    IN a11

buildArgs_shareBeforeFormat(opts) ==
    LET a0 == <<"agent", "run">>
        a1 == IF opts.prompt # "" THEN a0 \o <<"--prompt", opts.prompt>> ELSE a0
        a2 == IF opts.savedPrompt # "" THEN a1 \o <<"--saved-prompt", opts.savedPrompt>> ELSE a1
        a3 == IF opts.skill # "" THEN a2 \o <<"--skill", opts.skill>> ELSE a2
        a4 == IF opts.model # "" THEN a3 \o <<"--model", opts.model>> ELSE a3
        a5 == IF opts.name # "" THEN a4 \o <<"--name", opts.name>> ELSE a4
        a6 == IF opts.mcp # "" THEN a5 \o <<"--mcp", opts.mcp>> ELSE a5
        a7 == IF opts.cwd # "" THEN a6 \o <<"--cwd", opts.cwd>> ELSE a6
        a8 == IF opts.profile # "" THEN a7 \o <<"--profile", opts.profile>>
              ELSE a7 \o <<"--sandboxed">>
        a9 == pushShares(a8, opts.shareRecipients)
        a10 == IF opts.outputFormat # "" THEN a9 \o <<"--output-format", opts.outputFormat>> ELSE a9
        a11 == IF opts.debug THEN a10 \o <<"--debug">> ELSE a10
    IN a11

buildArgs(opts) ==
    LET a0 == <<"agent", "run">>
        a1 == IF opts.prompt # "" THEN a0 \o <<"--prompt", opts.prompt>> ELSE a0
        a2 == IF opts.savedPrompt # "" THEN a1 \o <<"--saved-prompt", opts.savedPrompt>> ELSE a1
        a3 == IF opts.skill # "" THEN a2 \o <<"--skill", opts.skill>> ELSE a2
        a4 == IF opts.model # "" THEN a3 \o <<"--model", opts.model>> ELSE a3
        a5 == IF opts.name # "" THEN a4 \o <<"--name", opts.name>> ELSE a4
        a6 == IF opts.mcp # "" THEN a5 \o <<"--mcp", opts.mcp>> ELSE a5
        a7 == IF opts.cwd # "" THEN a6 \o <<"--cwd", opts.cwd>> ELSE a6
        a8 == IF opts.profile # "" THEN a7 \o <<"--profile", opts.profile>>
              ELSE a7 \o <<"--sandboxed">>
        a9 == IF opts.outputFormat # "" THEN a8 \o <<"--output-format", opts.outputFormat>> ELSE a8
        a10 == pushShares(a9, opts.shareRecipients)
        a11 == IF opts.debug THEN a10 \o <<"--debug">> ELSE a10
    IN a11

\* the options record runAgent passes to buildArgs (agent.ts 35-47)
BuildArgsOptions(in) ==
    [prompt |-> in.prompt, savedPrompt |-> in.saved_prompt, skill |-> in.skill,
     model |-> in.model, name |-> in.name, mcp |-> in.mcp, cwd |-> in.cwd,
     profile |-> in.profile, outputFormat |-> in.output_format,
     shareRecipients |-> in.share, debug |-> in.debug]

(***************************************************************************)
(* downloadOzDeb, the concrete-version branch (agent.ts 203-212).          *)
(***************************************************************************)
\* the architecture names of a supported process.arch (agent.ts 170-175)
archNames(a) ==
    IF a = "x64" THEN [arch |-> "x86_64", debArch |-> "amd64"]
    ELSE [arch |-> "aarch64", debArch |-> "arm64"]

normalizeVersion_keepV(v) ==
    IF startsWithV(v) THEN [debVersion |-> v, version |-> v]
    ELSE [debVersion |-> v, version |-> <<"v">> \o v]

\* debVersion and the reassigned version (agent.ts 204-210)
normalizeVersion(v) ==
    IF startsWithV(v) THEN [debVersion |-> slice1(v), version |-> v]
    ELSE [debVersion |-> v, version |-> <<"v">> \o v]

\* the release URL (agent.ts 211)
releaseUrl(channel, tag, deb, debArch) ==
    "https://releases.warp.dev/" \o channel \o "/" \o Str(tag) \o "/oz_" \o channel
        \o "_" \o Str(deb) \o "_" \o debArch \o ".deb"

\* the redirect endpoint (agent.ts 183)
latestUrl(arch, channel) ==
    "https://app.warp.dev/download/cli?os=linux&package=deb&arch=" \o arch
        \o "&channel=" \o channel

\* the cache key (agent.ts 214)
cacheKey(channel, v) == channel \o "-" \o Str(v)

\* the directory the tool cache keeps a tool version in (tc.find / tc.cacheFile)
toolDir(tool, ver) == "/toolcache/" \o tool \o "/" \o ver

\* path.join(cachedDeb, 'oz.deb') (agent.ts 223)
debPath(dir) == dir \o "/oz.deb"

(***************************************************************************)
(* logOzLogFile (agent.ts 227-245).                                        *)
(***************************************************************************)
\* process.env.XDG_STATE_DIR || path.join(os.homedir(), '.local', 'state')
stateDir(xdg) == IF xdg # "" THEN xdg ELSE "/home/runner" \o "/.local/state"

\* warpLogPath (agent.ts 229-231)
warpLogPath(channel, xdg) ==
    LET channelSuffix == IF channel = "stable" THEN "" ELSE "-" \o channel
        logFileName == IF channel = "stable" THEN "warp.log"
                       ELSE "warp_" \o channel \o ".log"
    IN stateDir(xdg) \o "/warp-terminal" \o channelSuffix \o "/" \o logFileName

\* the calls logOzLogFile makes: exists / readOk are the filesystem's answers
logOzLogFile(channel, xdg, exists, readOk) ==
    LET p == warpLogPath(channel, xdg)
    IN <<[op |-> "fs.existsSync", path |-> p, ok |-> exists]>> \o
       (IF exists
        THEN <<[op |-> "core.group", name |-> "Warp Logs", ok |-> TRUE],
               [op |-> "fs.readFileSync", path |-> p, ok |-> readOk],
               IF readOk
               THEN [op |-> "core.info", text |-> "contents of " \o p, ok |-> TRUE]
               ELSE [op |-> "core.warning",
                     text |-> "Failed to read warp.log: Error: EACCES", ok |-> TRUE]>>
        ELSE <<[op |-> "core.warning", text |-> "warp.log not found at " \o p,
                ok |-> TRUE]>>)

(***************************************************************************)
(* The inputs and the environment of a run.                                *)
(***************************************************************************)
Channels == {"stable", "preview", "beta", ""}
VerChars == {"v", "1"}
Versions == {Latest} \cup SeqsUpTo(VerChars, MaxVer)
PathChars == {"/", "1"}
\* a URL's path is empty or starts with a slash
Paths == {<<>>} \cup {<<"/">> \o q : q \in SeqsUpTo(PathChars, MaxPath - 1)}
Platforms == {"linux", "darwin"}
Archs == {"x64", "arm64", "ia32"}
\* keys a previous run may have left in the tool cache
SeedKeys == {"stable-v1", "preview-1"}

\* response.message.headers['location']: absent, or the text origin + path
LocationHeaders ==
    {[present |-> FALSE, origin |-> "", path |-> <<>>]} \cup
    [present : {TRUE}, origin : {"", "https://releases.warp.dev"}, path : Paths]
locationText(h) == h.origin \o Str(h.path)
\* new URL(text) accepts an absolute URL only
urlValid(h) == h.origin # ""
\* URL.pathname
pathname(h) == IF h.path = <<>> THEN <<"/">> ELSE h.path

\* none of prompt / saved_prompt / skill given, one of them, or all three
Tasks ==
    {[prompt |-> "", saved_prompt |-> "", skill |-> ""],
     [prompt |-> "fix the bug", saved_prompt |-> "", skill |-> ""],
     [prompt |-> "", saved_prompt |-> "prompt-id-123", skill |-> ""],
     [prompt |-> "", saved_prompt |-> "", skill |-> "review-pr"],
     [prompt |-> "fix the bug", saved_prompt |-> "prompt-id-123", skill |-> "review-pr"]}

RunInputs ==
    {[oz_channel |-> c, prompt |-> t.prompt, saved_prompt |-> t.saved_prompt,
      skill |-> t.skill, model |-> "", name |-> "", mcp |-> "", cwd |-> "",
      profile |-> "", output_format |-> "", share |-> <<>>, debug |-> FALSE,
      warp_api_key |-> k, oz_version |-> v] :
        c \in Channels, t \in Tasks, k \in {"", "wk-1"}, v \in Versions}

Locals ==
    /\ pc = "start"
    /\ command = ""
    /\ version = <<>>
    /\ debVersion = <<>>
    /\ debUrl = ""
    /\ downloadedDeb = ""
    /\ cachedDeb = ""
    /\ args = <<>>
    /\ calls = <<>>
    /\ error = NoError
    /\ agent_output = Unset
    /\ failure = Unset

Init ==
    /\ inputs \in RunInputs
    /\ host \in [platform : Platforms, arch : Archs]
    /\ toolCache \in {{}, [tool : {"oz"}, version : SeedKeys]}
    /\ Locals

(***************************************************************************)
(* runAgent (agent.ts 12-64), installOz (148-155), downloadOzDeb (159-224). *)
(***************************************************************************)
raise(m) ==
    /\ error' = Throw(m)
    /\ pc' = "thrown"

\* the messages of the two input checks (agent.ts 23, 28), without their backquotes
MsgNoPrompt == "Either prompt, saved_prompt, or skill must be provided"
MsgNoKey == "warp_api_key must be provided."

ValidateInputs_noKeyCheck ==
    /\ pc = "start"
    /\ IF inputs.prompt = "" /\ inputs.saved_prompt = "" /\ inputs.skill = ""
       THEN raise(MsgNoPrompt) /\ UNCHANGED <<command, calls>>
       ELSE LET r == resolveCommand(inputs.oz_channel)
            IN IF r.ok
               THEN /\ command' = r.value
                    /\ pc' = "checkHost"
                    /\ calls' = Append(calls, [op |-> "core.group", name |-> "Installing Oz", ok |-> TRUE])
                    /\ UNCHANGED error
               ELSE raise(r.message) /\ UNCHANGED <<command, calls>>
    /\ UNCHANGED <<inputs, host, toolCache, version, debVersion, debUrl, downloadedDeb,
                   cachedDeb, args, agent_output, failure>>

\* agent.ts 13-33: read the inputs, validate them, resolve the command, enter installOz
ValidateInputs ==
    /\ pc = "start"
    /\ IF inputs.prompt = "" /\ inputs.saved_prompt = "" /\ inputs.skill = ""
       THEN raise(MsgNoPrompt) /\ UNCHANGED <<command, calls>>
       ELSE IF inputs.warp_api_key = ""
       THEN raise(MsgNoKey) /\ UNCHANGED <<command, calls>>
       ELSE LET r == resolveCommand(inputs.oz_channel)
            IN IF r.ok
               THEN /\ command' = r.value
                    /\ pc' = "checkHost"
                    /\ calls' = Append(calls, [op |-> "core.group", name |-> "Installing Oz", ok |-> TRUE])
                    /\ UNCHANGED error
               ELSE raise(r.message) /\ UNCHANGED <<command, calls>>
    /\ UNCHANGED <<inputs, host, toolCache, version, debVersion, debUrl, downloadedDeb,
                   cachedDeb, args, agent_output, failure>>

CheckHost_noArchCheck ==
    /\ pc = "checkHost"
    /\ version' = inputs.oz_version
    /\ IF host.platform # "linux"
       THEN raise("Only Linux runners are supported - the current platform is "
                  \o host.platform)
       ELSE pc' = "resolve" /\ UNCHANGED error
    /\ UNCHANGED <<inputs, host, toolCache, command, debVersion, debUrl, downloadedDeb,
                   cachedDeb, args, calls, agent_output, failure>>

\* agent.ts 159-178: the platform and architecture checks of downloadOzDeb
CheckHost ==
    /\ pc = "checkHost"
    /\ version' = inputs.oz_version
    /\ IF host.platform # "linux"
       THEN raise("Only Linux runners are supported - the current platform is "
                  \o host.platform)
       ELSE IF host.arch \notin {"x64", "arm64"}
       THEN raise("Unsupported architecture " \o host.arch)
       ELSE pc' = "resolve" /\ UNCHANGED error
    /\ UNCHANGED <<inputs, host, toolCache, command, debVersion, debUrl, downloadedDeb,
                   cachedDeb, args, calls, agent_output, failure>>

\* the answers the redirect endpoint may give: no answer at all, or a status and headers
Statuses == {200, 301, 302, 404}
Responses ==
    {[ok |-> FALSE, status |-> 0, location |-> [present |-> FALSE, origin |-> "", path |-> <<>>]]}
    \cup [ok : {TRUE}, status : Statuses, location : LocationHeaders]

versionFromRedirect_firstComponent(h, v) ==
    LET pathComponents == filterNonEmpty(split(pathname(h)))
    IN IF Len(pathComponents) >= 2 THEN pathComponents[1] ELSE v

\* the version a redirect target resolves to (agent.ts 192-197)
versionFromRedirect(h, v) ==
    LET pathComponents == filterNonEmpty(split(pathname(h)))
    IN IF Len(pathComponents) >= 2 THEN pathComponents[2] ELSE v

\* agent.ts 180-202: resolve 'latest' through the redirect endpoint
ResolveLatest ==
    /\ pc = "resolve"
    /\ version = Latest
    /\ \E r \in Responses :
         LET get == [op |-> "http.get",
                     url |-> latestUrl(archNames(host.arch).arch, inputs.oz_channel),
                     allowRedirects |-> FALSE, ok |-> r.ok, status |-> r.status,
                     location |-> r.location]
         IN IF ~r.ok
            THEN /\ raise("connect ETIMEDOUT")
                 /\ calls' = Append(calls, get)
                 /\ UNCHANGED <<version, debUrl>>
            ELSE IF r.status = 302 \/ r.status = 301
            THEN IF ~r.location.present \/ locationText(r.location) = ""
                 THEN /\ raise("Redirect location header missing")
                      /\ calls' = Append(calls, get)
                      /\ UNCHANGED <<version, debUrl>>
                 ELSE /\ debUrl' = locationText(r.location)
                      /\ IF ~urlValid(r.location)
                         THEN /\ raise("Invalid URL")
                              /\ calls' = Append(calls, get)
                              /\ UNCHANGED version
                         ELSE /\ version' = versionFromRedirect(r.location, version)
                              /\ calls' = calls \o
                                    <<get, [op |-> "core.info",
                                            text |-> "Latest version on " \o inputs.oz_channel
                                                     \o " is " \o Str(version'),
                                            ok |-> TRUE]>>
                              /\ pc' = "find"
                              /\ UNCHANGED error
            ELSE /\ raise("Expected redirect, got status " \o ToString(r.status))
                 /\ calls' = Append(calls, get)
                 /\ UNCHANGED <<version, debUrl>>
    /\ UNCHANGED <<inputs, host, toolCache, command, debVersion, downloadedDeb,
                   cachedDeb, args, agent_output, failure>>

\* agent.ts 203-212: a concrete version
ResolveConcrete ==
    /\ pc = "resolve"
    /\ version # Latest
    /\ LET n == normalizeVersion(version)
       IN /\ debVersion' = n.debVersion
          /\ version' = n.version
          /\ debUrl' = releaseUrl(inputs.oz_channel, n.version, n.debVersion,
                                  archNames(host.arch).debArch)
    /\ pc' = "find"
    /\ UNCHANGED <<inputs, host, toolCache, command, downloadedDeb, cachedDeb, args,
                   calls, error, agent_output, failure>>

CacheLookup_alwaysDownload ==
    /\ pc = "find"
    /\ LET key == cacheKey(inputs.oz_channel, version)
           hit == [tool |-> "oz", version |-> key] \in toolCache
       IN /\ calls' = calls \o
                 <<[op |-> "tc.find", tool |-> "oz", version |-> key, ok |-> hit],
                   [op |-> "core.debug", text |-> "Downloading from " \o debUrl \o "...",
                    ok |-> TRUE]>>
          /\ pc' = "download"
          /\ UNCHANGED cachedDeb
    /\ UNCHANGED <<inputs, host, toolCache, command, version, debVersion, debUrl,
                   downloadedDeb, args, error, agent_output, failure>>

\* agent.ts 214-217, 220-223: look the package up in the tool cache
CacheLookup ==
    /\ pc = "find"
    /\ LET key == cacheKey(inputs.oz_channel, version)
           hit == [tool |-> "oz", version |-> key] \in toolCache
       IN IF hit
          THEN /\ cachedDeb' = toolDir("oz", key)
               /\ calls' = calls \o
                     <<[op |-> "tc.find", tool |-> "oz", version |-> key, ok |-> TRUE],
                       [op |-> "core.debug", text |-> "Using cached .deb package",
                        ok |-> TRUE]>>
               /\ pc' = "dpkg"
          ELSE /\ calls' = calls \o
                     <<[op |-> "tc.find", tool |-> "oz", version |-> key, ok |-> FALSE],
                       [op |-> "core.debug", text |-> "Downloading from " \o debUrl \o "...",
                        ok |-> TRUE]>>
               /\ pc' = "download"
               /\ UNCHANGED cachedDeb
    /\ UNCHANGED <<inputs, host, toolCache, command, version, debVersion, debUrl,
                   downloadedDeb, args, error, agent_output, failure>>

\* agent.ts 218: download the package
Download ==
    /\ pc = "download"
    /\ \E ok \in BOOLEAN :
         /\ calls' = Append(calls, [op |-> "tc.downloadTool", url |-> debUrl, ok |-> ok])
         /\ IF ok
            THEN /\ downloadedDeb' = "/tmp/download-1"
                 /\ pc' = "cacheFile"
                 /\ UNCHANGED error
            ELSE /\ raise("Unexpected HTTP response: 404")
                 /\ UNCHANGED downloadedDeb
    /\ UNCHANGED <<inputs, host, toolCache, command, version, debVersion, debUrl,
                   cachedDeb, args, agent_output, failure>>

\* agent.ts 219: register the downloaded file in the tool cache
CacheFile ==
    /\ pc = "cacheFile"
    /\ \E ok \in BOOLEAN :
         LET key == cacheKey(inputs.oz_channel, version)
         IN /\ calls' = Append(calls, [op |-> "tc.cacheFile", file |-> downloadedDeb,
                                       name |-> "oz.deb", tool |-> "oz", version |-> key,
                                       ok |-> ok])
            /\ IF ok
               THEN /\ toolCache' = toolCache \cup {[tool |-> "oz", version |-> key]}
                    /\ cachedDeb' = toolDir("oz", key)
                    /\ pc' = "dpkg"
                    /\ UNCHANGED error
               ELSE /\ raise("ENOSPC: no space left on device")
                    /\ UNCHANGED <<toolCache, cachedDeb>>
    /\ UNCHANGED <<inputs, host, command, version, debVersion, debUrl, downloadedDeb,
                   args, agent_output, failure>>

\* agent.ts 223, 150-152: return the package path, install it with dpkg
Dpkg ==
    /\ pc = "dpkg"
    /\ \E ok \in BOOLEAN :
         /\ calls' = Append(calls, [op |-> "exec.exec", cmd |-> "sudo",
                                    args |-> <<"dpkg", "-i", debPath(cachedDeb)>>,
                                    ok |-> ok])
         /\ IF ok
            THEN pc' = "aptGet" /\ UNCHANGED error
            ELSE raise("The process 'sudo' failed with exit code 1")
    /\ UNCHANGED <<inputs, host, toolCache, command, version, debVersion, debUrl,
                   downloadedDeb, cachedDeb, args, agent_output, failure>>

\* agent.ts 153: install the dependencies
AptGet ==
    /\ pc = "aptGet"
    /\ \E ok \in BOOLEAN :
         /\ calls' = Append(calls, [op |-> "exec.exec", cmd |-> "sudo",
                                    args |-> <<"apt-get", "-f", "install">>, ok |-> ok])
         /\ IF ok
            THEN pc' = "exec" /\ UNCHANGED error
            ELSE raise("The process 'sudo' failed with exit code 100")
    /\ UNCHANGED <<inputs, host, toolCache, command, version, debVersion, debUrl,
                   downloadedDeb, cachedDeb, args, agent_output, failure>>

\* what a failed invocation of the agent rejects with
ExecFailures(cmd) ==
    {"The process '" \o cmd \o "' failed with exit code 1",
     "Unable to locate executable file: " \o cmd}

ExecAgent_outputOnFailure ==
    /\ pc = "exec"
    /\ args' = buildArgs(BuildArgsOptions(inputs))
    /\ \E ok \in BOOLEAN, stdout \in {"", "agent says hi"}, m \in ExecFailures(command) :
         /\ calls' = Append(calls, [op |-> "exec.getExecOutput", cmd |-> command,
                                    args |-> args', WARP_API_KEY |-> inputs.warp_api_key,
                                    ok |-> ok, message |-> IF ok THEN "" ELSE m])
         /\ agent_output' = SetTo(stdout)
         /\ IF ok
            THEN pc' = "done" /\ UNCHANGED error
            ELSE error' = Throw(m) /\ pc' = "logs"
    /\ UNCHANGED <<inputs, host, toolCache, command, version, debVersion, debUrl,
                   downloadedDeb, cachedDeb, failure>>

\* agent.ts 35-63: build the arguments, invoke the agent, set the output
ExecAgent ==
    /\ pc = "exec"
    /\ args' = buildArgs(BuildArgsOptions(inputs))
    /\ \E ok \in BOOLEAN, stdout \in {"", "agent says hi"}, m \in ExecFailures(command) :
         /\ calls' = Append(calls, [op |-> "exec.getExecOutput", cmd |-> command,
                                    args |-> args', WARP_API_KEY |-> inputs.warp_api_key,
                                    ok |-> ok, message |-> IF ok THEN "" ELSE m])
         /\ IF ok
            THEN /\ agent_output' = SetTo(stdout)
                 /\ pc' = "done"
                 /\ UNCHANGED error
            ELSE /\ error' = Throw(m)
                 /\ pc' = "logs"
                 /\ UNCHANGED agent_output
    /\ UNCHANGED <<inputs, host, toolCache, command, version, debVersion, debUrl,
                   downloadedDeb, cachedDeb, failure>>

LogOzLogFile_readErrorThrows ==
    /\ pc = "logs"
    /\ \E xdg \in {"", "/xdg"}, exists \in BOOLEAN, readOk \in BOOLEAN :
         /\ calls' = calls \o logOzLogFile(inputs.oz_channel, xdg, exists, readOk)
         /\ error' = IF exists /\ ~readOk THEN Throw("EACCES: permission denied") ELSE error
    /\ pc' = "thrown"
    /\ UNCHANGED <<inputs, host, toolCache, command, version, debVersion, debUrl,
                   downloadedDeb, cachedDeb, args, agent_output, failure>>

\* agent.ts 57-61: the catch block: show the log file, rethrow the error
LogOzLogFile ==
    /\ pc = "logs"
    /\ \E xdg \in {"", "/xdg"}, exists \in BOOLEAN, readOk \in BOOLEAN :
         calls' = calls \o logOzLogFile(inputs.oz_channel, xdg, exists, readOk)
    /\ pc' = "thrown"
    /\ UNCHANGED <<inputs, host, toolCache, command, version, debVersion, debUrl,
                   downloadedDeb, cachedDeb, args, error, agent_output, failure>>

\* index.ts 4-12: every error thrown is an Error, its message is the failure reason
IndexCatch ==
    /\ pc = "thrown"
    /\ failure' = SetTo(error.message)
    /\ pc' = "failed"
    /\ UNCHANGED <<inputs, host, toolCache, command, version, debVersion, debUrl,
                   downloadedDeb, cachedDeb, args, calls, error, agent_output>>

Next ==
    \/ ValidateInputs
    \/ CheckHost
    \/ ResolveLatest
    \/ ResolveConcrete
    \/ CacheLookup
    \/ Download
    \/ CacheFile
    \/ Dpkg
    \/ AptGet
    \/ ExecAgent
    \/ LogOzLogFile
    \/ IndexCatch

Spec == Init /\ [][Next]_vars

(***************************************************************************)
(* buildArgs on its own: the options are drawn from ArgsInputs and         *)
(* buildArgs is applied to them once.                                      *)
(***************************************************************************)
Recipients == {"a@x.com", "b@y.com", "--profile"}

ArgsInputs ==
    [oz_channel : {"stable"}, prompt : {"", "fix the bug", "--sandboxed"},
     saved_prompt : {"", "prompt-id-123"}, skill : {"", "review-pr"},
     model : {"", "gpt-4"}, name : {"", "my-agent"}, mcp : {"", "{}"},
     cwd : {"", "/tmp/work"}, profile : {"", "prod"}, output_format : {"", "json"},
     share : SeqsUpTo(Recipients, MaxShare), debug : BOOLEAN,
     warp_api_key : {"wk-1"}, oz_version : {Latest}]

InitArgs ==
    /\ inputs \in ArgsInputs
    /\ host = [platform |-> "linux", arch |-> "x64"]
    /\ toolCache = {}
    /\ pc = "args"
    /\ command = ""
    /\ version = <<>>
    /\ debVersion = <<>>
    /\ debUrl = ""
    /\ downloadedDeb = ""
    /\ cachedDeb = ""
    /\ args = <<>>
    /\ calls = <<>>
    /\ error = NoError
    /\ agent_output = Unset
    /\ failure = Unset

\* agent.ts 93-145: one application of buildArgs
BuildArgsCall ==
    /\ pc = "args"
    /\ args' = buildArgs(BuildArgsOptions(inputs))
    /\ pc' = "argsBuilt"
    /\ UNCHANGED <<inputs, host, toolCache, command, version, debVersion, debUrl,
                   downloadedDeb, cachedDeb, calls, error, agent_output, failure>>

NextArgs == BuildArgsCall

SpecArgs == InitArgs /\ [][NextArgs]_vars

(***************************************************************************)
(* Vocabulary of the properties.                                           *)
(***************************************************************************)
\* network requests, cache accesses, install commands and the agent invocation
ActivityOps ==
    {"http.get", "tc.find", "tc.downloadTool", "tc.cacheFile", "exec.exec",
     "exec.getExecOutput"}
CacheOps == {"tc.find", "tc.downloadTool", "tc.cacheFile"}

CallsOf(ops) == {i \in DOMAIN calls : calls[i].op \in ops}
TaskGiven == inputs.prompt # "" \/ inputs.saved_prompt # "" \/ inputs.skill # ""
KeyGiven == inputs.warp_api_key # ""
Ended == pc \in {"thrown", "failed"}

hasToken(a, t) == \E i \in 1..Len(a) : a[i] = t
countToken(a, t) == Cardinality({i \in 1..Len(a) : a[i] = t})
\* the flag f followed by a value
hasPair(a, f) == \E i \in 1..(Len(a) - 1) : a[i] = f
hasPairOf(a, f, v) == \E i \in 1..(Len(a) - 1) : a[i] = f /\ a[i+1] = v

(***************************************************************************)
(* C1.  resolveCommand is total over the channel strings: a run whose      *)
(* inputs pass the two input checks gets the command 'oz' on channel       *)
(* 'stable' and 'oz-preview' on 'preview'; on any other channel, the empty  *)
(* one included, it gets no command and fails with the error               *)
(* 'Unsupported channel <value>'.                                          *)
(***************************************************************************)
C1_ResolveCommandTotal ==
    (pc # "start" /\ TaskGiven /\ KeyGiven) =>
        /\ inputs.oz_channel = "stable" => command = "oz"
        /\ inputs.oz_channel = "preview" => command = "oz-preview"
        /\ inputs.oz_channel \notin {"stable", "preview"} =>
              /\ command = ""
              /\ Ended
              /\ error = Throw("Unsupported channel " \o inputs.oz_channel)
        /\ command # "" => inputs.oz_channel \in {"stable", "preview"}
        /\ command # "" => error.message \notin
                              {"Unsupported channel " \o c : c \in Channels}

C1_Witness ==
    /\ pc = "failed"
    /\ inputs.oz_channel = ""
    /\ command = ""
    /\ failure = SetTo("Unsupported channel ")

(***************************************************************************)
(* C2.  As claimed: for any options, the argument list holds exactly one   *)
(* of the token '--sandboxed' or a pair ('--profile', value).              *)
(***************************************************************************)
C2_ExactlyOneForAnyOptions ==
    pc = "argsBuilt" =>
        (hasToken(args, "--sandboxed") <=> ~hasPair(args, "--profile"))

\* no option value and no share recipient is itself one of the two flags
NoFlagValues ==
    LET flags == {"--sandboxed", "--profile"}
    IN /\ {inputs.prompt, inputs.saved_prompt, inputs.skill, inputs.model, inputs.name,
           inputs.mcp, inputs.cwd, inputs.profile, inputs.output_format} \cap flags = {}
       /\ \A i \in DOMAIN inputs.share : inputs.share[i] \notin flags

(***************************************************************************)
(* C2, amended.  When no option value and no share recipient is itself     *)
(* the string '--sandboxed' or '--profile', the argument list holds        *)
(* exactly one of the two: with a profile, one '--profile' token, followed *)
(* by the profile, and no '--sandboxed'; without one, one '--sandboxed'    *)
(* token and no '--profile'.                                               *)
(***************************************************************************)
C2_ExactlyOneAmongFlags ==
    (pc = "argsBuilt" /\ NoFlagValues) =>
        /\ hasToken(args, "--sandboxed") <=> ~hasPair(args, "--profile")
        /\ inputs.profile # "" =>
              /\ countToken(args, "--profile") = 1
              /\ hasPairOf(args, "--profile", inputs.profile)
              /\ ~hasToken(args, "--sandboxed")
        /\ inputs.profile = "" =>
              /\ countToken(args, "--sandboxed") = 1
              /\ ~hasToken(args, "--profile")

C2_Witness ==
    /\ pc = "argsBuilt"
    /\ NoFlagValues
    /\ inputs.profile = "prod"
    /\ inputs.share = <<"a@x.com", "b@y.com">>
    /\ hasPairOf(args, "--profile", "prod")

(***************************************************************************)
(* C3.  buildArgs returns exactly: 'agent', 'run'; a flag and value for    *)
(* each non-empty one of prompt, saved prompt, skill, model, name, mcp,    *)
(* cwd, in that order; '--profile' and the profile, or '--sandboxed' when  *)
(* there is no profile; '--output-format' and its value if given; one      *)
(* '--share' pair per recipient, in input order, duplicates kept;          *)
(* '--debug' iff debug.  The options are left as they were.                *)
(***************************************************************************)
Opt(flag, v) == IF v = "" THEN <<>> ELSE <<flag, v>>
SharePairs(r) ==
    [i \in 1..(2 * Len(r)) |-> IF i % 2 = 1 THEN "--share" ELSE r[i \div 2]]
ExpectedArgs(o) ==
    <<"agent", "run">>
    \o Opt("--prompt", o.prompt) \o Opt("--saved-prompt", o.savedPrompt)
    \o Opt("--skill", o.skill) \o Opt("--model", o.model) \o Opt("--name", o.name)
    \o Opt("--mcp", o.mcp) \o Opt("--cwd", o.cwd)
    \o (IF o.profile = "" THEN <<"--sandboxed">> ELSE <<"--profile", o.profile>>)
    \o Opt("--output-format", o.outputFormat)
    \o SharePairs(o.shareRecipients)
    \o (IF o.debug THEN <<"--debug">> ELSE <<>>)

C3_ArgsInFixedOrder ==
    [][(pc = "args" /\ pc' = "argsBuilt") =>
          /\ args' = ExpectedArgs(BuildArgsOptions(inputs))
          /\ inputs' = inputs]_vars

C3_Witness ==
    /\ pc = "argsBuilt"
    /\ inputs.share = <<"b@y.com", "b@y.com">>
    /\ inputs.output_format = "json"
    /\ inputs.debug
    /\ inputs.profile = ""
    /\ inputs.prompt = "fix the bug"
    /\ inputs.model = "gpt-4"
    /\ args = <<"agent", "run", "--prompt", "fix the bug", "--model", "gpt-4",
                "--sandboxed", "--output-format", "json", "--share", "b@y.com",
                "--share", "b@y.com", "--debug">>

(***************************************************************************)
(* C4.  A run without any of prompt, saved_prompt and skill, or without    *)
(* the API key, fails with the error that names what is missing before     *)
(* any network request, cache access, install command or agent invocation: *)
(* it makes no call at all.                                                *)
(***************************************************************************)
C4_FailsFastOnMissingInput ==
    (pc # "start" /\ (~TaskGiven \/ ~KeyGiven)) =>
        /\ Ended
        /\ error = Throw(IF ~TaskGiven THEN MsgNoPrompt ELSE MsgNoKey)
        /\ calls = <<>>
        /\ CallsOf(ActivityOps) = {}

C4_Witness ==
    /\ pc = "failed"
    /\ TaskGiven
    /\ ~KeyGiven
    /\ failure = SetTo(MsgNoKey)
    /\ calls = <<>>

(***************************************************************************)
(* C5.  A fatal error at any step fails the run with that error's message  *)
(* as the reason: a thrown error always reaches core.setFailed, the step   *)
(* that failed is not run again and nothing runs after it but the log      *)
(* dump, and agent_output stays unset; agent_output is set only once the   *)
(* agent invocation has succeeded.                                         *)
(***************************************************************************)
\* the two install commands are told apart by their first argument
Kind(c) == IF c.op = "exec.exec" THEN c.args[1] ELSE c.op

C5_FatalErrorsFailTheRun ==
    /\ error.thrown <=> pc \in {"logs", "thrown", "failed"}
    /\ pc = "thrown" => ENABLED IndexCatch
    /\ failure.set <=> pc = "failed"
    /\ pc = "failed" => failure = SetTo(error.message)
    /\ error.thrown => ~agent_output.set
    /\ agent_output.set =>
          /\ pc = "done"
          /\ calls[Len(calls)].op = "exec.getExecOutput"
          /\ calls[Len(calls)].ok
    /\ \A i \in CallsOf(ActivityOps) :
          /\ ~calls[i].ok /\ calls[i].op # "tc.find" =>
                /\ error.thrown
                /\ \A j \in CallsOf(ActivityOps) : j <= i
          /\ \A j \in CallsOf(ActivityOps) : Kind(calls[j]) = Kind(calls[i]) => j = i

C5_Witness ==
    /\ pc = "failed"
    /\ ~agent_output.set
    /\ failure = SetTo("Unexpected HTTP response: 404")
    /\ calls[Len(calls)].op = "tc.downloadTool"
    /\ ~calls[Len(calls)].ok

(***************************************************************************)
(* C6.  When the agent invocation fails, the run looks for the channel's   *)
(* log file and shows it before the error goes on, and the error that      *)
(* fails the run is the invocation's: a missing log file or a failed read  *)
(* of it ends in a warning and leaves the error as it was.                 *)
(***************************************************************************)
LogPaths ==
    IF inputs.oz_channel = "stable"
    THEN {"/xdg/warp-terminal/warp.log",
          "/home/runner/.local/state/warp-terminal/warp.log"}
    ELSE {"/xdg/warp-terminal-preview/warp_preview.log",
          "/home/runner/.local/state/warp-terminal-preview/warp_preview.log"}

C6_LogDumpKeepsTheError ==
    \A i \in CallsOf({"exec.getExecOutput"}) :
        ~calls[i].ok =>
            /\ error = Throw(calls[i].message)
            /\ pc \in {"logs", "thrown", "failed"}
            /\ pc = "logs" <=> i = Len(calls)
            /\ pc = "failed" => failure = SetTo(calls[i].message)
            /\ Ended =>
                  /\ Len(calls) > i
                  /\ calls[i+1].op = "fs.existsSync"
                  /\ calls[i+1].path \in LogPaths
                  /\ IF calls[i+1].ok
                     THEN /\ Len(calls) = i + 4
                          /\ calls[i+3].op = "fs.readFileSync"
                          /\ calls[i+3].path = calls[i+1].path
                          /\ calls[i+4].op =
                                IF calls[i+3].ok THEN "core.info" ELSE "core.warning"
                     ELSE /\ Len(calls) = i + 2
                          /\ calls[i+2].op = "core.warning"

C6_Witness ==
    /\ pc = "failed"
    /\ failure = SetTo("The process 'oz-preview' failed with exit code 1")
    /\ Len(calls) >= 2
    /\ calls[Len(calls)].op = "core.warning"
    /\ calls[Len(calls) - 1].op = "fs.readFileSync"
    /\ ~calls[Len(calls) - 1].ok

(***************************************************************************)
(* C7.  On a platform other than linux, or an architecture other than x64  *)
(* and arm64, downloadOzDeb fails with the unsupported-platform or         *)
(* unsupported-architecture error before any network call, cache lookup    *)
(* or cache registration.                                                  *)
(***************************************************************************)
\* downloadOzDeb has been entered and has done its host checks
HostChecked == command # "" /\ pc \notin {"start", "checkHost"}

C7_HostCheckedBeforeAnyCall ==
    (HostChecked /\ (host.platform # "linux" \/ host.arch \notin {"x64", "arm64"})) =>
        /\ Ended
        /\ error = Throw(IF host.platform # "linux"
                         THEN "Only Linux runners are supported - the current platform is "
                              \o host.platform
                         ELSE "Unsupported architecture " \o host.arch)
        /\ CallsOf(ActivityOps) = {}

C7_Witness ==
    /\ pc = "failed"
    /\ HostChecked
    /\ host.platform = "linux"
    /\ host.arch = "ia32"
    /\ failure = SetTo("Unsupported architecture ia32")

(***************************************************************************)
(* C8.  As claimed: for every concrete version X, the package version is   *)
(* X without its leading 'v', the tag version has a leading 'v', and       *)
(* requesting 'v' + X gives the same package version, tag version,         *)
(* download URL and cache key as requesting X.                             *)
(***************************************************************************)
\* X with a leading 'v' stripped
withoutV(X) == IF X # <<>> /\ Head(X) = "v" THEN Tail(X) ELSE X
\* the host's package architecture
PackageArch == IF host.arch = "x64" THEN "amd64" ELSE "arm64"
\* a concrete version has been resolved
ConcreteResolved ==
    /\ inputs.oz_version # Latest
    /\ HostChecked
    /\ pc # "resolve"
    /\ host.platform = "linux"
    /\ host.arch \in {"x64", "arm64"}

\* the package version, tag version, URL and cache key are those of the template
NormalisedAsSpecified ==
    LET X == inputs.oz_version
    IN /\ debVersion = withoutV(X)
       /\ version = <<"v">> \o withoutV(X)
       /\ debUrl = "https://releases.warp.dev/" \o inputs.oz_channel \o "/v"
                   \o Str(withoutV(X)) \o "/oz_" \o inputs.oz_channel \o "_"
                   \o Str(withoutV(X)) \o "_" \o PackageArch \o ".deb"
       /\ \A i \in CallsOf(CacheOps \ {"tc.downloadTool"}) :
             calls[i].version = inputs.oz_channel \o "-v" \o Str(withoutV(X))

\* requesting 'v' + X would give what this run, which requested X, got
SameAsWithVPrefix ==
    LET n == normalizeVersion(<<"v">> \o inputs.oz_version)
    IN /\ debVersion = n.debVersion
       /\ version = n.version
       /\ debUrl = releaseUrl(inputs.oz_channel, n.version, n.debVersion, PackageArch)
       /\ cacheKey(inputs.oz_channel, version) = cacheKey(inputs.oz_channel, n.version)

C8_VPrefixIdempotentForEveryVersion ==
    ConcreteResolved => (NormalisedAsSpecified /\ SameAsWithVPrefix)

(***************************************************************************)
(* C8, amended.  For every concrete version X, the package version is X    *)
(* without one leading 'v' and the tag version is 'v' followed by the      *)
(* package version, and they fill the URL template and the cache key; for  *)
(* every X that does not itself begin with 'v', requesting 'v' + X gives   *)
(* the same package version, tag version, download URL and cache key as    *)
(* requesting X.                                                           *)
(***************************************************************************)
C8_VPrefixIdempotentForBareVersions ==
    ConcreteResolved =>
        /\ NormalisedAsSpecified
        /\ ~startsWithV(inputs.oz_version) => SameAsWithVPrefix

C8_Witness ==
    /\ pc = "done"
    /\ inputs.oz_version = <<"1", "1">>
    /\ debUrl = "https://releases.warp.dev/preview/v11/oz_preview_11_arm64.deb"
    /\ \E i \in CallsOf({"tc.cacheFile"}) : calls[i].version = "preview-v11"

(***************************************************************************)
(* C9.  The cache is looked up by tool 'oz' and key                        *)
(* <channel>-<resolved version>.  On a hit the cached package path is      *)
(* returned and nothing is downloaded or registered; on a miss the         *)
(* resolved URL is downloaded once and the file is then registered under   *)
(* tool 'oz', file name 'oz.deb' and the key of the lookup, and the path   *)
(* of the registered package is returned.  No download without a miss      *)
(* before it, no registration without a successful download before it.     *)
(***************************************************************************)
\* the package path downloadOzDeb returned is the one dpkg is given
ReturnedPaths == {calls[i].args[3] : i \in {j \in CallsOf({"exec.exec"}) : calls[j].args[1] = "dpkg"}}

C9_CacheHitOrDownloadOnce ==
    /\ Cardinality(CallsOf({"tc.find"})) <= 1
    /\ Cardinality(CallsOf({"tc.downloadTool"})) <= 1
    /\ Cardinality(CallsOf({"tc.cacheFile"})) <= 1
    /\ pc \in {"dpkg", "aptGet", "exec", "logs", "done"} => CallsOf({"tc.find"}) # {}
    /\ ReturnedPaths # {} => CallsOf({"tc.find"}) # {}
    /\ \A f \in CallsOf({"tc.find"}) :
          LET key == calls[f].version
          IN /\ calls[f].tool = "oz"
             /\ key = inputs.oz_channel \o "-" \o Str(version)
             /\ calls[f].ok =>
                   /\ CallsOf({"tc.downloadTool", "tc.cacheFile"}) = {}
                   /\ ReturnedPaths \subseteq {"/toolcache/oz/" \o key \o "/oz.deb"}
                   /\ pc \notin {"download", "cacheFile"}
             /\ ~calls[f].ok =>
                   /\ pc # "download" =>
                         \E d \in CallsOf({"tc.downloadTool"}) :
                             d > f /\ calls[d].url = debUrl
                   /\ \A d \in CallsOf({"tc.downloadTool"}) :
                         (calls[d].ok /\ pc # "cacheFile") =>
                             \E c \in CallsOf({"tc.cacheFile"}) :
                                 /\ c = d + 1
                                 /\ calls[c].tool = "oz"
                                 /\ calls[c].name = "oz.deb"
                                 /\ calls[c].version = key
                                 /\ calls[c].file = downloadedDeb
                   /\ ReturnedPaths # {} =>
                         /\ \E c \in CallsOf({"tc.cacheFile"}) : calls[c].ok
                         /\ [tool |-> "oz", version |-> key] \in toolCache
                         /\ ReturnedPaths = {"/toolcache/oz/" \o key \o "/oz.deb"}
    /\ \A d \in CallsOf({"tc.downloadTool"}) :
          \E f \in CallsOf({"tc.find"}) : f < d /\ ~calls[f].ok
    /\ \A c \in CallsOf({"tc.cacheFile"}) :
          \E d \in CallsOf({"tc.downloadTool"}) : d < c /\ calls[d].ok

C9_Witness ==
    /\ pc = "done"
    /\ toolCache # {}
    /\ \E f \in CallsOf({"tc.find"}) : ~calls[f].ok
    /\ \E c \in CallsOf({"tc.cacheFile"}) :
          /\ calls[c].ok
          /\ calls[c].version = "stable-v1"
          /\ ReturnedPaths = {"/toolcache/oz/stable-v1/oz.deb"}

(***************************************************************************)
(* C10.  For version 'latest' one GET is sent to the redirect endpoint,    *)
(* redirects not followed.  A status other than 301 and 302 fails with     *)
(* the expected-redirect error, a 301 or 302 without location with the     *)
(* missing-location error, and in both cases nothing is looked up,         *)
(* downloaded or registered.  Only a 301 or 302 with a location goes on:   *)
(* its target is the download URL and the second non-empty segment of the  *)
(* target's path is the resolved version, 'latest' being kept when the     *)
(* path has fewer than two segments.                                       *)
(***************************************************************************)
\* the non-empty segments of a path: its maximal runs of characters other than '/'
Segments(p) ==
    {<<a, b>> \in (1..Len(p)) \X (1..Len(p)) :
        /\ a <= b
        /\ \A k \in a..b : p[k] # "/"
        /\ (a = 1 \/ p[a-1] = "/")
        /\ (b = Len(p) \/ p[b+1] = "/")}
\* the second of them, or dflt when there are fewer than two
SecondSegment(p, dflt) ==
    LET S == Segments(p)
        second == {x \in S : Cardinality({y \in S : y[1] < x[1]}) = 1}
    IN IF second = {} THEN dflt
       ELSE LET x == CHOOSE x \in second : TRUE IN SubSeq(p, x[1], x[2])

C10_LatestResolvedByRedirect ==
    /\ Cardinality(CallsOf({"http.get"})) <= 1
    /\ (HostChecked /\ pc # "resolve" /\ inputs.oz_version = Latest /\ host.platform = "linux"
           /\ host.arch \in {"x64", "arm64"}) => CallsOf({"http.get"}) # {}
    /\ \A g \in CallsOf({"http.get"}) :
          LET r == calls[g]
              redirect == r.ok /\ r.status \in {301, 302}
          IN /\ inputs.oz_version = Latest
             /\ r.allowRedirects = FALSE
             /\ r.url = "https://app.warp.dev/download/cli?os=linux&package=deb&arch="
                        \o (IF host.arch = "x64" THEN "x86_64" ELSE "aarch64")
                        \o "&channel=" \o inputs.oz_channel
             /\ (r.ok /\ ~redirect) =>
                   /\ Ended
                   /\ error = Throw("Expected redirect, got status " \o ToString(r.status))
                   /\ CallsOf(CacheOps) = {}
             /\ (redirect /\ ~r.location.present) =>
                   /\ Ended
                   /\ error = Throw("Redirect location header missing")
                   /\ CallsOf(CacheOps) = {}
             /\ (~Ended \/ CallsOf(CacheOps) # {}) =>
                   /\ redirect
                   /\ r.location.present
                   /\ debUrl = r.location.origin \o Str(r.location.path)
                   /\ version = SecondSegment(r.location.path, Latest)

C10_Witness ==
    /\ pc = "done"
    /\ version = <<"1", "1">>
    /\ debUrl = "https://releases.warp.dev/1/11"
    /\ \E g \in CallsOf({"http.get"}) : calls[g].status = 301

====
